---- MODULE Spec2Model ----
(***************************************************************************)
(* Model of the GPU orchestration layer of the boids renderer:             *)
(*   - the window event loop (lib.rs: run, handle_window_event),           *)
(*   - State::new / resize / update / render (graphics.rs),                *)
(*   - generate_mipmaps (mipmaps.rs),                                      *)
(*   - create_bind_group (bind_group.rs).                                  *)
(* Calls into wgpu / winit / the UI library are recorded in `trace`, the   *)
(* ordered list of calls made by the most recent event handler.            *)
(***************************************************************************)
EXTENDS Integers, Sequences, FiniteSets, TLC

VARIABLES
    size,                       \* State.size
    config,                     \* State.config (SurfaceConfiguration)
    surface,                    \* what the surface handle was last configured with
    depth_texture,              \* State.depth_texture
    multisampled_framebuffer,   \* State.multisampled_framebuffer
    fish_pipeline,              \* State.fish_pipeline
    aquarium_pipeline,          \* State.aquarium_pipeline
    device,                     \* number of attachment textures the device has allocated
    surface_caps,               \* formats of surface.get_capabilities(&adapter)
    egui_render_pass,           \* State.egui_render_pass
    camera_buffer,              \* State.camera_buffer
    camera_bind_group,          \* State.camera_bind_group
    boids,                      \* State.boids (instance buffer and tints bind group)
    control_flow,               \* winit ControlFlow of the event loop
    frames,                     \* cumulative counts of acquire / submit / present calls
    trace,                      \* calls made by the most recent event handler, in order
    textures,                   \* generate_mipmaps: the texture list passed in
    mip_output,                 \* generate_mipmaps: <<>> before the call, <<result>> after
    desc,                       \* create_bind_group: the descriptor passed in
    bind_group_output           \* create_bind_group: <<>> before the call, <<result>> after

stateVars == <<size, config, surface, depth_texture, multisampled_framebuffer,
               fish_pipeline, aquarium_pipeline, device, surface_caps, egui_render_pass,
               camera_buffer, camera_bind_group, boids, control_flow, frames, trace>>
mipVars == <<textures, mip_output>>
bindVars == <<desc, bind_group_output>>
vars == <<stateVars, mipVars, bindVars>>

-----------------------------------------------------------------------------
(* Bounds *)
MaxDim == 2         \* window dimensions range over 0..MaxDim
MaxTicks == 2       \* RedrawRequested ticks per behaviour
MaxAllocs == 5      \* window resize events stop once this many attachments exist

(* Program constants *)
MSAA_SAMPLE_COUNT == 4

MainWindow == "main"
WindowIds == {MainWindow, "other"}
Dims == 0..MaxDim
PhysicalSize == [width : Dims, height : Dims]
\* The window is built with a positive inner size (SIZE_X x SIZE_Y scaled).
InitialSizes == {s \in PhysicalSize : s.width > 0 /\ s.height > 0}
SurfaceResults == {"Ok", "Lost", "OutOfMemory", "Outdated", "Timeout"}
SurfaceFormat == "Bgra8UnormSrgb"
DEPTH_FORMAT == "Depth32Float"

Ev(op, args) == [op |-> op, args |-> args]

-----------------------------------------------------------------------------
(* bind_group.rs *)

MaxEntries == 2     \* entries per CompactBindGroupDescriptor
MaxBinding == 1     \* binding numbers range over 0..MaxBinding

Visibilities == {"VERTEX", "FRAGMENT"}
BindingTypes == {"Buffer", "Sampler"}
Counts == {<<>>, <<2>>}                     \* Option<NonZeroU32>
Resources == {"camera_buffer", "sampler"}
Labels == {<<>>, <<"camera_bind_group">>, <<"tints">>}   \* Label = Option<&str>

CompactBindGroupEntry ==
    [binding : 0..MaxBinding, visibility : Visibilities, ty : BindingTypes,
     count : Counts, resource : Resources]
CompactBindGroupDescriptor ==
    [label : Labels,
     entries : UNION {[1..n -> CompactBindGroupEntry] : n \in 0..MaxEntries}]

\* CompactBindGroupDescriptor::to_bind_group_layout_entry
to_bind_group_layout_entry(d) ==
    [i \in 1..Len(d.entries) |->
        [binding |-> d.entries[i].binding,
         visibility |-> d.entries[i].visibility,
         ty |-> d.entries[i].ty,
         count |-> d.entries[i].count]]

to_bind_group_entry_by_position(d) ==
    [i \in 1..Len(d.entries) |->
        [binding |-> i - 1,
         resource |-> d.entries[i].resource]]

\* CompactBindGroupDescriptor::to_bind_group_entry
to_bind_group_entry(d) ==
    [i \in 1..Len(d.entries) |->
        [binding |-> d.entries[i].binding,
         resource |-> d.entries[i].resource]]

layout_label_unsuffixed(label) == label

\* desc.label.map(|x| format!("{}_layout", x))
layout_label(label) == [i \in 1..Len(label) |-> label[i] \o "_layout"]

\* create_bind_group(device, desc) -> (BindGroup, BindGroupLayout);
\* `created` is the position of the device call that made the object
create_bind_group(d) ==
    LET bind_group_layout ==
            [created |-> 1,
             entries |-> to_bind_group_layout_entry(d),
             label |-> layout_label(d.label)]
        bind_group ==
            [created |-> 2,
             layout |-> bind_group_layout,
             entries |-> to_bind_group_entry(d),
             label |-> d.label]
    IN <<bind_group, bind_group_layout>>

-----------------------------------------------------------------------------
(* texture.rs *)

\* Texture::create_depth_texture(device, config, label, sample_count):
\* `id` is the fresh handle the device returns.
create_depth_texture(id, cfg, label, sample_count) ==
    [id |-> id, label |-> label, width |-> cfg.width, height |-> cfg.height,
     sample_count |-> sample_count, format |-> DEPTH_FORMAT]

\* Texture::create_msfb_texture(device, config, label, sample_count)
create_msfb_texture(id, cfg, label, sample_count) ==
    [id |-> id, label |-> label, width |-> cfg.width, height |-> cfg.height,
     sample_count |-> sample_count, format |-> cfg.format]

-----------------------------------------------------------------------------
(* graphics.rs *)

MaxFormats == 2     \* length of the list of supported surface formats

Formats == {"Bgra8Unorm", "Bgra8UnormSrgb", "Rgba8UnormSrgb"}
\* the supported formats are listed once each
FormatLists ==
    {l \in UNION {[1..n -> Formats] : n \in 1..MaxFormats} :
        \A i, j \in 1..Len(l) : l[i] = l[j] => i = j}

\* TextureFormat::is_srgb
is_srgb(f) == f \in {"Bgra8UnormSrgb", "Rgba8UnormSrgb"}

\* formats.iter().copied().find(|f| f.is_srgb()), from position i on: <<>> is None
RECURSIVE find_srgb(_, _)
find_srgb(formats, i) ==
    IF i > Len(formats) THEN <<>>
    ELSE IF is_srgb(formats[i]) THEN <<formats[i]>>
    ELSE find_srgb(formats, i + 1)

surface_format_first(formats) == formats[1]

\* let surface_format = ...find(|f| f.is_srgb()).unwrap_or(surface_caps.formats[0]);
surface_format(formats) ==
    LET found == find_srgb(formats, 1) IN
    IF found # <<>> THEN found[1] ELSE formats[1]

\* configure_surface: the SurfaceConfiguration built for the initial size
configure_surface(sz, formats) ==
    [format |-> surface_format(formats), width |-> sz.width, height |-> sz.height]

\* create_render_pipeline
create_render_pipeline(layout, color_format, depth_format, vertex_layouts, shader) ==
    [layout |-> layout, shader |-> shader, format |-> color_format,
     depth_format |-> depth_format, buffers |-> vertex_layouts,
     sample_count |-> MSAA_SAMPLE_COUNT]

\* The whole program state as one record, so that handlers compose.
Cur ==
    [size |-> size, config |-> config, surface |-> surface,
     depth_texture |-> depth_texture,
     multisampled_framebuffer |-> multisampled_framebuffer,
     fish_pipeline |-> fish_pipeline, aquarium_pipeline |-> aquarium_pipeline,
     device |-> device, surface_caps |-> surface_caps,
     egui_render_pass |-> egui_render_pass, camera_buffer |-> camera_buffer,
     camera_bind_group |-> camera_bind_group, boids |-> boids,
     control_flow |-> control_flow, frames |-> frames,
     trace |-> trace]

Apply(s) ==
    /\ size' = s.size
    /\ config' = s.config
    /\ surface' = s.surface
    /\ depth_texture' = s.depth_texture
    /\ multisampled_framebuffer' = s.multisampled_framebuffer
    /\ fish_pipeline' = s.fish_pipeline
    /\ aquarium_pipeline' = s.aquarium_pipeline
    /\ device' = s.device
    /\ surface_caps' = s.surface_caps
    /\ egui_render_pass' = s.egui_render_pass
    /\ camera_buffer' = s.camera_buffer
    /\ camera_bind_group' = s.camera_bind_group
    /\ boids' = s.boids
    /\ control_flow' = s.control_flow
    /\ frames' = s.frames
    /\ trace' = s.trace

\* Boids::new(device, layout)  (boids.rs): the instance buffer and the tints
\* bind group
boids_new ==
    [buffer |-> [label |-> "instance_buffer", usage |-> {"VERTEX", "COPY_DST"},
                 writes |-> 0],
     bind_group |-> [label |-> <<"tints_bind_group">>,
                     layout |-> "tints_bind_group_layout",
                     entries |-> <<[binding |-> 0, resource |-> "tint_buffer"]>>]]

\* State::new(window), for a window whose inner size is sz and a surface that
\* supports the given formats
new(sz, formats) ==
    LET cfg == configure_surface(sz, formats)
        format == cfg.format
    IN
    [size |-> sz,
     config |-> cfg,
     surface |-> [width |-> cfg.width, height |-> cfg.height, format |-> cfg.format],
     surface_caps |-> formats,
     egui_render_pass |-> [format |-> format, msaa_samples |-> 1],
     depth_texture |-> create_depth_texture(1, cfg, "depth_texture", MSAA_SAMPLE_COUNT),
     multisampled_framebuffer |->
         create_msfb_texture(2, cfg, "mssa_texture", MSAA_SAMPLE_COUNT),
     camera_buffer |-> [label |-> "camera_buffer", usage |-> {"UNIFORM", "COPY_DST"},
                        writes |-> 0],
     camera_bind_group |->
         create_bind_group(
             [label |-> <<"camera_bind_group">>,
              entries |-> <<[binding |-> 0, visibility |-> "VERTEX", ty |-> "Buffer",
                             count |-> <<>>, resource |-> "camera_buffer"]>>])[1],
     boids |-> boids_new,
     fish_pipeline |->
         create_render_pipeline("fish_pipeline_layout", cfg.format, <<DEPTH_FORMAT>>,
                                <<"Vertex", "InstanceRaw">>, "fish.wgsl"),
     aquarium_pipeline |->
         create_render_pipeline("aquarium_pipeline_layout", cfg.format, <<DEPTH_FORMAT>>,
                                <<"Vertex">>, "aquarium.wgsl"),
     device |-> 2,
     control_flow |-> "Poll",
     frames |-> [acquires |-> 0, submits |-> 0, presents |-> 0],
     trace |-> <<>>]

\* the variables hold the State s
StateIs(s) ==
    /\ size = s.size
    /\ config = s.config
    /\ surface = s.surface
    /\ depth_texture = s.depth_texture
    /\ multisampled_framebuffer = s.multisampled_framebuffer
    /\ fish_pipeline = s.fish_pipeline
    /\ aquarium_pipeline = s.aquarium_pipeline
    /\ device = s.device
    /\ surface_caps = s.surface_caps
    /\ egui_render_pass = s.egui_render_pass
    /\ camera_buffer = s.camera_buffer
    /\ camera_bind_group = s.camera_bind_group
    /\ boids = s.boids
    /\ control_flow = s.control_flow
    /\ frames = s.frames
    /\ trace = s.trace

resize_any_dimension(s, new_size) ==
    LET called == [s EXCEPT !.trace = Append(@, Ev("resize", <<new_size>>))] IN
    IF new_size.width > 0 \/ new_size.height > 0
    THEN LET cfg == [s.config EXCEPT !.width = new_size.width,
                                      !.height = new_size.height]
             depth == create_depth_texture(s.device + 1, cfg, "depth_texture",
                                           MSAA_SAMPLE_COUNT)
             msfb == create_msfb_texture(s.device + 2, cfg, "mssa_texture",
                                         MSAA_SAMPLE_COUNT)
         IN [called EXCEPT
                !.size = new_size,
                !.config = cfg,
                !.depth_texture = depth,
                !.multisampled_framebuffer = msfb,
                !.device = s.device + 2,
                !.surface = [width |-> cfg.width, height |-> cfg.height,
                             format |-> cfg.format],
                !.trace = @ \o <<Ev("set_config", <<cfg.width, cfg.height>>),
                                 Ev("create_depth_texture", <<depth>>),
                                 Ev("create_msfb_texture", <<msfb>>),
                                 Ev("surface.configure", <<cfg.width, cfg.height>>)>>]
    ELSE called

resize_keeps_framebuffer(s, new_size) ==
    LET called == [s EXCEPT !.trace = Append(@, Ev("resize", <<new_size>>))] IN
    IF new_size.width > 0 /\ new_size.height > 0
    THEN LET cfg == [s.config EXCEPT !.width = new_size.width,
                                      !.height = new_size.height]
             depth == create_depth_texture(s.device + 1, cfg, "depth_texture",
                                           MSAA_SAMPLE_COUNT)
         IN [called EXCEPT
                !.size = new_size,
                !.config = cfg,
                !.depth_texture = depth,
                !.device = s.device + 1,
                !.surface = [width |-> cfg.width, height |-> cfg.height,
                             format |-> cfg.format],
                !.trace = @ \o <<Ev("set_config", <<cfg.width, cfg.height>>),
                                 Ev("create_depth_texture", <<depth>>),
                                 Ev("surface.configure", <<cfg.width, cfg.height>>)>>]
    ELSE called

resize_builds_before_config(s, new_size) ==
    LET called == [s EXCEPT !.trace = Append(@, Ev("resize", <<new_size>>))] IN
    IF new_size.width > 0 /\ new_size.height > 0
    THEN LET cfg == [s.config EXCEPT !.width = new_size.width,
                                      !.height = new_size.height]
             depth == create_depth_texture(s.device + 1, s.config, "depth_texture",
                                           MSAA_SAMPLE_COUNT)
             msfb == create_msfb_texture(s.device + 2, s.config, "mssa_texture",
                                         MSAA_SAMPLE_COUNT)
         IN [called EXCEPT
                !.size = new_size,
                !.config = cfg,
                !.depth_texture = depth,
                !.multisampled_framebuffer = msfb,
                !.device = s.device + 2,
                !.surface = [width |-> cfg.width, height |-> cfg.height,
                             format |-> cfg.format],
                !.trace = @ \o <<Ev("create_depth_texture", <<depth>>),
                                 Ev("create_msfb_texture", <<msfb>>),
                                 Ev("set_config", <<cfg.width, cfg.height>>),
                                 Ev("surface.configure", <<cfg.width, cfg.height>>)>>]
    ELSE called

resize_forgets_size(s, new_size) ==
    LET called == [s EXCEPT !.trace = Append(@, Ev("resize", <<new_size>>))] IN
    IF new_size.width > 0 /\ new_size.height > 0
    THEN LET cfg == [s.config EXCEPT !.width = new_size.width,
                                      !.height = new_size.height]
             depth == create_depth_texture(s.device + 1, cfg, "depth_texture",
                                           MSAA_SAMPLE_COUNT)
             msfb == create_msfb_texture(s.device + 2, cfg, "mssa_texture",
                                         MSAA_SAMPLE_COUNT)
         IN [called EXCEPT
                !.config = cfg,
                !.depth_texture = depth,
                !.multisampled_framebuffer = msfb,
                !.device = s.device + 2,
                !.surface = [width |-> cfg.width, height |-> cfg.height,
                             format |-> cfg.format],
                !.trace = @ \o <<Ev("set_config", <<cfg.width, cfg.height>>),
                                 Ev("create_depth_texture", <<depth>>),
                                 Ev("create_msfb_texture", <<msfb>>),
                                 Ev("surface.configure", <<cfg.width, cfg.height>>)>>]
    ELSE called

\* State::resize(new_size)
resize(s, new_size) ==
    LET called == [s EXCEPT !.trace = Append(@, Ev("resize", <<new_size>>))] IN
    IF new_size.width > 0 /\ new_size.height > 0
    THEN LET cfg == [s.config EXCEPT !.width = new_size.width,
                                      !.height = new_size.height]
             depth == create_depth_texture(s.device + 1, cfg, "depth_texture",
                                           MSAA_SAMPLE_COUNT)
             msfb == create_msfb_texture(s.device + 2, cfg, "mssa_texture",
                                         MSAA_SAMPLE_COUNT)
         IN [called EXCEPT
                !.size = new_size,
                !.config = cfg,
                !.depth_texture = depth,
                !.multisampled_framebuffer = msfb,
                !.device = s.device + 2,
                !.surface = [width |-> cfg.width, height |-> cfg.height,
                             format |-> cfg.format],
                !.trace = @ \o <<Ev("set_config", <<cfg.width, cfg.height>>),
                                 Ev("create_depth_texture", <<depth>>),
                                 Ev("create_msfb_texture", <<msfb>>),
                                 Ev("surface.configure", <<cfg.width, cfg.height>>)>>]
    ELSE called

\* Boids::update(queue)  (boids.rs)
boids_update(s) ==
    [s EXCEPT !.boids.buffer.writes = @ + 1,
              !.trace = Append(@, Ev("write_buffer", <<s.boids.buffer.label>>))]

update_without_camera_write(s) ==
    LET b == boids_update(s) IN
    [b EXCEPT !.trace = @ \o <<Ev("update_camera", <<>>),
                               Ev("update_view_proj", <<>>)>>]

update_recreates_bind_group(s) ==
    LET b == boids_update(s) IN
    [b EXCEPT !.camera_buffer.writes = @ + 1,
              !.camera_bind_group.label = <<"camera_bind_group_2">>,
              !.trace = @ \o <<Ev("update_camera", <<>>),
                               Ev("update_view_proj", <<>>),
                               Ev("write_buffer", <<s.camera_buffer.label>>)>>]

\* State::update(delta_s)
update(s) ==
    LET b == boids_update(s) IN
    [b EXCEPT !.camera_buffer.writes = @ + 1,
              !.trace = @ \o <<Ev("update_camera", <<>>),
                               Ev("update_view_proj", <<>>),
                               Ev("write_buffer", <<s.camera_buffer.label>>)>>]

\* wgpu::Color::BLACK
BLACK == [r |-> 0, g |-> 0, b |-> 0, a |-> 1]

\* ops of the scene pass's colour attachment: LoadOp::Clear(Color::BLACK), store
color_ops == [load |-> "Clear", value |-> BLACK, store |-> TRUE]

\* depth_ops of the scene pass's depth attachment: LoadOp::Clear(1.0), store;
\* the depth 1.0 is written as the integer 1
depth_ops == <<[load |-> "Clear", value |-> 1, store |-> TRUE]>>

\* stencil_ops: None
stencil_ops == <<>>

scene_pass_fish_first(s) ==
    <<Ev("create_view", <<"output">>),
      Ev("create_command_encoder", <<"render_encoder">>),
      Ev("begin_render_pass",
         <<"render_encoder", s.multisampled_framebuffer, s.depth_texture,
           "output", color_ops, depth_ops, stencil_ops>>),
      Ev("set_vertex_buffer", <<1, "instance_buffer">>),
      Ev("set_bind_group", <<2, "tints_bind_group">>),
      Ev("set_pipeline", <<s.fish_pipeline>>),
      Ev("draw_model_instanced", <<"fish_model", 50>>),
      Ev("set_pipeline", <<s.aquarium_pipeline>>),
      Ev("draw_model_instanced", <<"aquarium_model", 1>>),
      Ev("end_render_pass", <<"render_encoder">>)>>

\* State::render(), the scene pass: output view, render_encoder, one render pass
\* with the aquarium draw and the instanced fish draw
scene_pass(s) ==
    <<Ev("create_view", <<"output">>),
      Ev("create_command_encoder", <<"render_encoder">>),
      Ev("begin_render_pass",
         <<"render_encoder", s.multisampled_framebuffer, s.depth_texture,
           "output", color_ops, depth_ops, stencil_ops>>),
      Ev("set_pipeline", <<s.aquarium_pipeline>>),
      Ev("draw_model_instanced", <<"aquarium_model", 1>>),
      Ev("set_vertex_buffer", <<1, "instance_buffer">>),
      Ev("set_bind_group", <<2, "tints_bind_group">>),
      Ev("set_pipeline", <<s.fish_pipeline>>),
      Ev("draw_model_instanced", <<"fish_model", 50>>),
      Ev("end_render_pass", <<"render_encoder">>)>>

ui_pass_clear_color(s) ==
    <<Ev("ui.begin_frame", <<>>),
      Ev("ui.end_frame", <<>>),
      Ev("create_command_encoder", <<"ui_encoder">>),
      Ev("ui.update_buffers", <<s.config.width, s.config.height>>),
      Ev("ui.execute", <<"ui_encoder", "output", <<BLACK>>>>)>>

\* State::render(), the UI pass: the UI frame, ui_encoder, the UI library's pass;
\* the last argument of execute is its clear colour, None in the code
ui_pass(s) ==
    <<Ev("ui.begin_frame", <<>>),
      Ev("ui.end_frame", <<>>),
      Ev("create_command_encoder", <<"ui_encoder">>),
      Ev("ui.update_buffers", <<s.config.width, s.config.height>>),
      Ev("ui.execute", <<"ui_encoder", "output", <<>>>>)>>

submit_present_swapped ==
    <<Ev("submit", <<"ui_encoder", "render_encoder">>),
      Ev("present", <<"output">>)>>

\* self.queue.submit([render_encoder.finish(), ui_encoder.finish()]); output.present();
submit_present ==
    <<Ev("submit", <<"render_encoder", "ui_encoder">>),
      Ev("present", <<"output">>)>>

\* State::render(), where `got` is what surface.get_current_texture() returns
render(s, got) ==
    LET acquired == [s EXCEPT
            !.trace = Append(@, Ev("get_current_texture", <<got>>)),
            !.frames.acquires = @ + 1]
    IN
    IF got # "Ok"
    THEN acquired
    ELSE [acquired EXCEPT
            !.frames.submits = @ + 1,
            !.frames.presents = @ + 1,
            !.trace = @ \o scene_pass(s) \o ui_pass(s) \o submit_present]

\* CameraController::process_events (camera_controller.rs): TRUE iff consumed
process_events(event) == event.kind = "MouseWheel"

\* State::input(event)
input(event) == process_events(event)

-----------------------------------------------------------------------------
(* lib.rs *)

WindowEvents ==
    [kind : {"CloseRequested", "MouseWheel", "Focused"}, size : {[width |-> 0, height |-> 0]}]
    \cup [kind : {"Resized", "ScaleFactorChanged"}, size : PhysicalSize]

\* handle_window_event(event, window_id, state, control_flow)
handle_window_event(s, event, window_id) ==
    IF window_id # MainWindow THEN s
    ELSE IF input(event) THEN s
    ELSE CASE event.kind = "CloseRequested" -> [s EXCEPT !.control_flow = "Exit"]
           [] event.kind = "Resized" -> resize(s, event.size)
           [] event.kind = "ScaleFactorChanged" -> resize(s, event.size)
           [] OTHER -> s

redraw_requested_errors_exit(s, got) ==
    LET updated == update(s)
        rendered == render(updated, got)
    IN CASE got = "Ok" -> rendered
         [] got = "Lost" -> resize(rendered, rendered.size)
         [] OTHER -> [rendered EXCEPT !.control_flow = "Exit"]

redraw_requested_lost_zero_size(s, got) ==
    LET updated == update(s)
        rendered == render(updated, got)
    IN CASE got = "Ok" -> rendered
         [] got = "Lost" -> resize(rendered, [width |-> 0, height |-> 0])
         [] got = "OutOfMemory" -> [rendered EXCEPT !.control_flow = "Exit"]
         [] OTHER -> [rendered EXCEPT !.trace = Append(@, Ev("log_error", <<got>>))]

redraw_requested_lost_unhandled(s, got) ==
    LET updated == update(s)
        rendered == render(updated, got)
    IN CASE got = "Ok" -> rendered
         [] got = "OutOfMemory" -> [rendered EXCEPT !.control_flow = "Exit"]
         [] OTHER -> [rendered EXCEPT !.trace = Append(@, Ev("log_error", <<got>>))]

redraw_requested_oom_unhandled(s, got) ==
    LET updated == update(s)
        rendered == render(updated, got)
    IN CASE got = "Ok" -> rendered
         [] got = "Lost" -> resize(rendered, rendered.size)
         [] OTHER -> [rendered EXCEPT !.trace = Append(@, Ev("log_error", <<got>>))]

\* the Event::RedrawRequested arm of the event-loop closure in run()
redraw_requested(s, got) ==
    LET updated == update(s)
        rendered == render(updated, got)
    IN CASE got = "Ok" -> rendered
         [] got = "Lost" -> resize(rendered, rendered.size)
         [] got = "OutOfMemory" -> [rendered EXCEPT !.control_flow = "Exit"]
         [] OTHER -> [rendered EXCEPT !.trace = Append(@, Ev("log_error", <<got>>))]

\* every event first goes to state.ui_handle_event(&event)
ui_handle_event(s) == [s EXCEPT !.trace = <<Ev("ui_handle_event", <<>>)>>]

Init ==
    /\ \E sz \in InitialSizes, formats \in FormatLists : StateIs(new(sz, formats))
    /\ textures = <<>>
    /\ mip_output = <<>>
    /\ desc = [label |-> <<>>, entries |-> <<>>]
    /\ bind_group_output = <<>>

\* Event::WindowEvent { event, window_id }
WindowEvent ==
    /\ control_flow # "Exit"
    /\ \E event \in WindowEvents, window_id \in WindowIds :
          /\ event.kind \in {"Resized", "ScaleFactorChanged"} => device < MaxAllocs
          /\ Apply(handle_window_event(ui_handle_event(Cur), event, window_id))
    /\ UNCHANGED <<mipVars, bindVars>>

\* Event::RedrawRequested(window_id) if window_id == state.window().id()
RedrawRequested ==
    /\ control_flow # "Exit"
    /\ frames.acquires < MaxTicks
    /\ \E got \in SurfaceResults :
          Apply(redraw_requested(ui_handle_event(Cur), got))
    /\ UNCHANGED <<mipVars, bindVars>>

\* Event::MainEventsCleared
MainEventsCleared ==
    /\ control_flow # "Exit"
    /\ Apply([ui_handle_event(Cur) EXCEPT
                 !.trace = Append(@, Ev("request_redraw", <<>>))])
    /\ UNCHANGED <<mipVars, bindVars>>

\* every other event (`_ => ()`), LoopDestroyed after an exit included
OtherEvent ==
    /\ Apply(ui_handle_event(Cur))
    /\ UNCHANGED <<mipVars, bindVars>>

Next == WindowEvent \/ RedrawRequested \/ MainEventsCleared \/ OtherEvent

Spec == Init /\ [][Next]_vars

-----------------------------------------------------------------------------
(* mipmaps.rs *)

MaxTexDim == 4      \* texture dimensions range over 1..MaxTexDim and the sample sizes
MaxTextures == 2    \* length of the texture list given to generate_mipmaps

TexDims == 1..MaxTexDim
SampleSizes == {[width |-> 1, height |-> 1], [width |-> 256, height |-> 256],
                [width |-> 300, height |-> 150], [width |-> 512, height |-> 512]}
TextureSizes == [width : TexDims, height : TexDims] \cup SampleSizes
TextureLists == UNION {[1..n -> TextureSizes] : n \in 0..MaxTextures}

max(a, b) == IF a >= b THEN a ELSE b

\* u32::ilog2: the position of the highest set bit, found by shifting right
RECURSIVE ilog2(_)
ilog2(n) == IF n \div 2 = 0 THEN 0 ELSE 1 + ilog2(n \div 2)

mip_level_count_of_smaller_side(tsize) ==
    1 + ilog2(IF tsize.width <= tsize.height THEN tsize.width ELSE tsize.height)

\* let mip_level_count = 1 + max(size.width, size.height).ilog2();
mip_level_count(tsize) == 1 + ilog2(max(tsize.width, tsize.height))

\* let views = (0..mip_level_count).map(|mip| create_view(base_mip_level: mip, ..))
mip_views(t, count) ==
    [i \in 1..count |-> [texture |-> t, base_mip_level |-> i - 1, mip_level_count |-> 1]]

blit_passes_from_level_two(views, count) ==
    [k \in 1..(count - 2) |->
        [sampled |-> views[k + 1],
         target |-> views[k + 2],
         load |-> "Clear",
         draw |-> <<4, 1>>]]

blit_passes_reads_target(views, count) ==
    [target_mip \in 1..(count - 1) |->
        [sampled |-> views[target_mip + 1],
         target |-> views[target_mip + 1],
         load |-> "Clear",
         draw |-> <<4, 1>>]]

\* for target_mip in 1..mip_level_count as usize { .. }: the passes of one texture.
\* views[k] of the code is views[k + 1] here (sequences start at 1).
blit_passes(views, count) ==
    [target_mip \in 1..(count - 1) |->
        [sampled |-> views[(target_mip - 1) + 1],
         target |-> views[target_mip + 1],
         load |-> "Clear",
         draw |-> <<4, 1>>]]

\* for texture in textures { .. }, from texture number t on, into one encoder
RECURSIVE encode_textures(_, _, _)
encode_textures(texs, t, encoder) ==
    IF t > Len(texs) THEN encoder
    ELSE LET count == mip_level_count(texs[t])
             views == mip_views(t, count)
         IN encode_textures(texs, t + 1,
                [encoder EXCEPT !.views = Append(@, views),
                                !.passes = @ \o blit_passes(views, count)])

\* generate_mipmaps(device, texture_bind_group_layout, textures) -> CommandBuffer
generate_mipmaps(texs) ==
    LET encoder == [label |-> "mip_generator_encoder", views |-> <<>>, passes |-> <<>>]
    IN encode_textures(texs, 1, encoder)

InitMip ==
    /\ StateIs(new([width |-> 1, height |-> 1], <<SurfaceFormat>>))
    /\ textures \in TextureLists
    /\ mip_output = <<>>
    /\ desc = [label |-> <<>>, entries |-> <<>>]
    /\ bind_group_output = <<>>

\* let command_buf = generate_mipmaps(&device, &texture_bind_group_layout, &textures);
GenerateMipmaps ==
    /\ mip_output = <<>>
    /\ mip_output' = <<generate_mipmaps(textures)>>
    /\ UNCHANGED <<stateVars, textures, bindVars>>

NextMip == GenerateMipmaps

SpecMip == InitMip /\ [][NextMip]_vars

-----------------------------------------------------------------------------
(* bind_group.rs: the call made in State::new *)

InitBind ==
    /\ StateIs(new([width |-> 1, height |-> 1], <<SurfaceFormat>>))
    /\ textures = <<>>
    /\ mip_output = <<>>
    /\ desc \in CompactBindGroupDescriptor
    /\ bind_group_output = <<>>

\* let (bind_group, layout) = create_bind_group(&device, desc);
CreateBindGroup ==
    /\ bind_group_output = <<>>
    /\ bind_group_output' = <<create_bind_group(desc)>>
    /\ UNCHANGED <<stateVars, mipVars, desc>>

NextBind == CreateBindGroup

SpecBind == InitBind /\ [][NextBind]_vars

-----------------------------------------------------------------------------
(* Properties *)

\* positions in the call list t of the calls named op
Idx(t, op) == {i \in 1..Len(t) : t[i].op = op}
CountOp(t, op) == Cardinality(Idx(t, op))
\* the handler that produced t called render(), and what the acquire returned
Acquired(t) == Idx(t, "get_current_texture") # {}
AcquireResult(t) ==
    IF Acquired(t) THEN t[CHOOSE i \in Idx(t, "get_current_texture") : TRUE].args[1]
    ELSE "None"
\* the arguments of the resize calls of t
ResizeArgs(t) == {t[i].args[1] : i \in Idx(t, "resize")}
Positive(sz) == sz.width > 0 /\ sz.height > 0

\* C1: on a tick whose acquire returns Lost, no command encoder is created,
\* nothing is submitted, nothing is presented, and the handler makes exactly
\* one resize call, whose argument is the size the state had before the tick
\* (which stays the state's size).
C1_LostSkipsFrameAndResizesOnce ==
    [][AcquireResult(trace') = "Lost" =>
          /\ CountOp(trace', "create_command_encoder") = 0
          /\ CountOp(trace', "begin_render_pass") = 0
          /\ CountOp(trace', "submit") = 0
          /\ CountOp(trace', "present") = 0
          /\ frames'.submits = frames.submits
          /\ frames'.presents = frames.presents
          /\ CountOp(trace', "resize") = 1
          /\ ResizeArgs(trace') = {size}
          /\ size' = size]_vars

C1_Witness ==
    /\ AcquireResult(trace) = "Lost"
    /\ CountOp(trace, "resize") = 1
    /\ frames.presents > 0

\* C2: in a successful render the calls are acquire, then both encoders and
\* their passes, then exactly one submit of the list [scene, ui], then exactly
\* one present.
C2_FrameOrder ==
    AcquireResult(trace) = "Ok" =>
        LET acq == Idx(trace, "get_current_texture")
            enc == Idx(trace, "create_command_encoder")
            rec == Idx(trace, "begin_render_pass") \cup Idx(trace, "end_render_pass")
                       \cup Idx(trace, "ui.execute")
            sub == Idx(trace, "submit")
            pre == Idx(trace, "present")
        IN /\ Cardinality(acq) = 1
           /\ Cardinality(enc) = 2
           /\ {trace[i].args[1] : i \in enc} = {"render_encoder", "ui_encoder"}
           /\ Cardinality(sub) = 1
           /\ Cardinality(pre) = 1
           /\ \A s \in sub : trace[s].args = <<"render_encoder", "ui_encoder">>
           /\ \A a \in acq, e \in enc \cup rec : a < e
           /\ \A e \in enc \cup rec, s \in sub : e < s
           /\ \A s \in sub, p \in pre : s < p

C2_Witness ==
    /\ AcquireResult(trace) = "Ok"
    /\ CountOp(trace, "present") = 1
    /\ frames.presents = 2

\* C3: the depth attachment and the multisampled colour attachment are always
\* the most recently allocated pair, sized to the current SurfaceConfig, with
\* the sample count of both pipelines; a scene pass uses exactly that pair.
C3_AttachmentsMatchConfig ==
    /\ depth_texture.width = config.width
    /\ depth_texture.height = config.height
    /\ multisampled_framebuffer.width = config.width
    /\ multisampled_framebuffer.height = config.height
    /\ depth_texture.sample_count = fish_pipeline.sample_count
    /\ depth_texture.sample_count = aquarium_pipeline.sample_count
    /\ multisampled_framebuffer.sample_count = fish_pipeline.sample_count
    /\ multisampled_framebuffer.sample_count = aquarium_pipeline.sample_count
    /\ fish_pipeline.sample_count = MSAA_SAMPLE_COUNT
    /\ {depth_texture.id, multisampled_framebuffer.id} = {device - 1, device}
    /\ \A i \in Idx(trace, "begin_render_pass") :
          /\ trace[i].args[2] = multisampled_framebuffer
          /\ trace[i].args[3] = depth_texture
          /\ trace[i].args[2].width = config.width
          /\ trace[i].args[2].height = config.height
          /\ trace[i].args[3].width = config.width
          /\ trace[i].args[3].height = config.height

C3_Witness ==
    /\ CountOp(trace, "begin_render_pass") = 1
    /\ device > 2
    /\ config.width # config.height

\* C4: a resize call with a zero dimension changes neither State.size nor
\* SurfaceConfig nor either attachment, allocates nothing and does not
\* reconfigure the surface.
C4_ZeroResizeIsNoOp ==
    [][(\E sz \in ResizeArgs(trace') : ~Positive(sz)) =>
          /\ size' = size
          /\ config' = config
          /\ depth_texture' = depth_texture
          /\ multisampled_framebuffer' = multisampled_framebuffer
          /\ surface' = surface
          /\ device' = device
          /\ CountOp(trace', "create_depth_texture") = 0
          /\ CountOp(trace', "create_msfb_texture") = 0
          /\ CountOp(trace', "surface.configure") = 0]_vars

C4_Witness ==
    /\ \E sz \in ResizeArgs(trace) : sz.width = 0 /\ sz.height > 0
    /\ size.height = 1

\* C5: a resize call with both dimensions positive sets SurfaceConfig to
\* exactly that size and replaces both attachments by newly allocated ones of
\* that size and of the pipelines' sample count, also when the size is the
\* current one.
C5_ResizeRebuilds ==
    [][\A sz \in ResizeArgs(trace') : Positive(sz) =>
          /\ config'.width = sz.width
          /\ config'.height = sz.height
          /\ depth_texture'.id > device
          /\ multisampled_framebuffer'.id > device
          /\ depth_texture'.id # multisampled_framebuffer'.id
          /\ depth_texture'.width = sz.width
          /\ depth_texture'.height = sz.height
          /\ multisampled_framebuffer'.width = sz.width
          /\ multisampled_framebuffer'.height = sz.height
          /\ depth_texture'.sample_count = fish_pipeline.sample_count
          /\ multisampled_framebuffer'.sample_count = aquarium_pipeline.sample_count
          /\ depth_texture'.sample_count = MSAA_SAMPLE_COUNT
          /\ multisampled_framebuffer'.sample_count = MSAA_SAMPLE_COUNT]_vars

\* the resize after a Lost acquire is a resize at the current size
C5_Witness ==
    /\ AcquireResult(trace) = "Lost"
    /\ \E sz \in ResizeArgs(trace) : Positive(sz) /\ sz = size
    /\ depth_texture.id > 2

\* C6: SurfaceConfig.width and .height are positive in every state, and a step
\* that changes SurfaceConfig is a handler that called resize with a positive
\* size.
C6_ConfigPositive ==
    /\ [](config.width > 0 /\ config.height > 0)
    /\ [][config' # config => \E sz \in ResizeArgs(trace') : Positive(sz)]_vars

C6_Witness ==
    /\ \E sz \in ResizeArgs(trace) : sz.width = 0 \/ sz.height = 0
    /\ device > 2
    /\ config.width > 0
    /\ config.height > 0

\* C10: a tick whose acquire returns OutOfMemory acquires once, encodes,
\* submits and presents nothing and sets the control flow to Exit; once the
\* control flow is Exit it stays Exit and no handler acquires, submits or
\* presents again.
C10_OutOfMemoryIsFatal ==
    /\ [](AcquireResult(trace) = "OutOfMemory" =>
             /\ control_flow = "Exit"
             /\ CountOp(trace, "get_current_texture") = 1
             /\ CountOp(trace, "create_command_encoder") = 0
             /\ CountOp(trace, "submit") = 0
             /\ CountOp(trace, "present") = 0)
    /\ [][control_flow = "Exit" =>
             /\ control_flow' = "Exit"
             /\ frames' = frames
             /\ ~Acquired(trace')]_vars

C10_Witness ==
    /\ AcquireResult(trace) = "OutOfMemory"
    /\ frames.presents > 0

\* floor(log2(m)) for m >= 1: the k with 2^k <= m < 2^(k+1)
FloorLog2(m) == CHOOSE k \in 0..16 : 2^k <= m /\ m < 2^(k + 1)
Larger(a, b) == IF a > b THEN a ELSE b

\* C7: the number of mip levels generate_mipmaps uses for a texture is
\* 1 + floor(log2(max(width, height))): 9 for 256x256, 1 for 1x1, 9 for
\* 300x150.
C7_MipLevelCount ==
    mip_output # <<>> =>
        \A t \in 1..Len(textures) :
            LET levels == Len(mip_output[1].views[t])
                m == Larger(textures[t].width, textures[t].height)
            IN /\ 2^(levels - 1) <= m
               /\ m < 2^levels
               /\ levels = 1 + FloorLog2(m)
               /\ textures[t] = [width |-> 256, height |-> 256] => levels = 9
               /\ textures[t] = [width |-> 1, height |-> 1] => levels = 1
               /\ textures[t] = [width |-> 300, height |-> 150] => levels = 9

C7_Witness ==
    /\ mip_output # <<>>
    /\ \E t \in 1..Len(textures) : textures[t] = [width |-> 300, height |-> 150]
    /\ \E t \in 1..Len(textures) : textures[t] = [width |-> 3, height |-> 4]

RECURSIVE ExpectedPasses(_, _)
ExpectedPasses(texs, t) ==
    IF t > Len(texs) THEN 0
    ELSE FloorLog2(Larger(texs[t].width, texs[t].height)) + ExpectedPasses(texs, t + 1)

PassesOf(out, t) == {i \in 1..Len(out.passes) : out.passes[i].target.texture = t}

\* C8: generate_mipmaps returns one command buffer of one encoder holding,
\* for each texture, mip_level_count - 1 blit passes: 9 for 512x512, none for
\* 1x1, and no pass at all for an empty list.
C8_BlitPassCount ==
    mip_output # <<>> =>
        LET out == mip_output[1] IN
        /\ Len(mip_output) = 1
        /\ out.label = "mip_generator_encoder"
        /\ Len(out.passes) = ExpectedPasses(textures, 1)
        /\ \A t \in 1..Len(textures) :
              LET n == Cardinality(PassesOf(out, t)) IN
              /\ n = FloorLog2(Larger(textures[t].width, textures[t].height))
              /\ textures[t] = [width |-> 512, height |-> 512] => n = 9
              /\ textures[t] = [width |-> 1, height |-> 1] => n = 0
        /\ textures = <<>> => out.passes = <<>>

C8_Witness ==
    /\ mip_output # <<>>
    /\ Len(textures) = 2
    /\ textures[1] = [width |-> 512, height |-> 512]
    /\ textures[2] = [width |-> 1, height |-> 1]
    /\ Len(mip_output[1].passes) = 9

\* C9: the layout-entry list and the group-entry list of create_bind_group
\* have one entry per descriptor entry, in descriptor order, with the
\* descriptor entry's binding; the layout entry carries its visibility, type
\* and count, the group entry its resource.
C9_EntriesProjected ==
    bind_group_output # <<>> =>
        LET group == bind_group_output[1][1]
            layout == bind_group_output[1][2]
            n == Len(desc.entries)
        IN /\ Len(layout.entries) = n
           /\ Len(group.entries) = n
           /\ \A i \in 1..n :
                 /\ layout.entries[i].binding = desc.entries[i].binding
                 /\ group.entries[i].binding = desc.entries[i].binding
                 /\ layout.entries[i].visibility = desc.entries[i].visibility
                 /\ layout.entries[i].ty = desc.entries[i].ty
                 /\ layout.entries[i].count = desc.entries[i].count
                 /\ group.entries[i].resource = desc.entries[i].resource

C9_Witness ==
    /\ bind_group_output # <<>>
    /\ Len(desc.entries) = 2
    /\ desc.entries[1].binding = 1
    /\ desc.entries[2].binding = 0
    /\ Len(bind_group_output[1][1].entries) = 2

\* C11: a tick whose acquire returns Outdated or Timeout creates no encoder,
\* submits and presents nothing, calls neither resize nor surface.configure,
\* leaves SurfaceConfig, State.size, the surface and both attachments as they
\* were and leaves the control flow at Poll, so that a further redraw is
\* dispatched; and every tick makes exactly one acquire attempt.
Transient(r) == r \in {"Outdated", "Timeout"}

C11_TransientErrorsSkipTick ==
    /\ [](Transient(AcquireResult(trace)) =>
             /\ control_flow = "Poll"
             /\ frames.acquires < MaxTicks => ENABLED RedrawRequested)
    /\ [][Transient(AcquireResult(trace')) =>
             /\ CountOp(trace', "create_command_encoder") = 0
             /\ CountOp(trace', "begin_render_pass") = 0
             /\ CountOp(trace', "submit") = 0
             /\ CountOp(trace', "present") = 0
             /\ CountOp(trace', "resize") = 0
             /\ CountOp(trace', "surface.configure") = 0
             /\ CountOp(trace', "create_depth_texture") = 0
             /\ CountOp(trace', "create_msfb_texture") = 0
             /\ frames'.submits = frames.submits
             /\ frames'.presents = frames.presents
             /\ size' = size
             /\ config' = config
             /\ surface' = surface
             /\ depth_texture' = depth_texture
             /\ multisampled_framebuffer' = multisampled_framebuffer
             /\ control_flow' = control_flow]_vars
    /\ [][CountOp(trace', "update_camera") > 0 =>
             /\ CountOp(trace', "get_current_texture") = 1
             /\ frames'.acquires = frames.acquires + 1]_vars

C11_Witness ==
    /\ AcquireResult(trace) = "Timeout"
    /\ frames.acquires = 2
    /\ frames.presents = 0
    /\ control_flow = "Poll"

\* C12 as stated: in a resize, surface.configure comes before the depth and
\* multisampled colour attachments are rebuilt.
C12_ConfigureBeforeRebuild ==
    \A c \in Idx(trace, "surface.configure"),
       r \in Idx(trace, "create_depth_texture") \cup Idx(trace, "create_msfb_texture") :
        c < r

\* C12 (amended): in a resize with both dimensions positive, SurfaceConfig
\* width/height are written first, then the depth and the multisampled colour
\* attachment are rebuilt, then the surface handle is reconfigured with that
\* SurfaceConfig; all of it happens inside the handler that called resize, after
\* which no acquire follows in that handler.
C12_ResizeOrder ==
    (\E sz \in ResizeArgs(trace) : Positive(sz)) =>
        /\ CountOp(trace, "resize") = 1
        /\ CountOp(trace, "set_config") = 1
        /\ CountOp(trace, "create_depth_texture") = 1
        /\ CountOp(trace, "create_msfb_texture") = 1
        /\ CountOp(trace, "surface.configure") = 1
        /\ \A r \in Idx(trace, "resize"), c \in Idx(trace, "set_config") : r < c
        /\ \A c \in Idx(trace, "set_config"),
              t \in Idx(trace, "create_depth_texture") \cup Idx(trace, "create_msfb_texture") :
               c < t
        /\ \A t \in Idx(trace, "create_depth_texture") \cup Idx(trace, "create_msfb_texture"),
              c \in Idx(trace, "surface.configure") :
               /\ t < c
               /\ trace[t].args[1].width = trace[c].args[1]
               /\ trace[t].args[1].height = trace[c].args[2]
        /\ \A c \in Idx(trace, "surface.configure") : c = Len(trace)
        /\ \A r \in Idx(trace, "resize"), a \in Idx(trace, "get_current_texture") : a < r
        /\ surface.width = config.width
        /\ surface.height = config.height

C12_Witness ==
    /\ \E sz \in ResizeArgs(trace) : Positive(sz)
    /\ ~Acquired(trace)
    /\ CountOp(trace, "surface.configure") = 1
    /\ frames.acquires = 1

\* C14: the resize that follows a Lost acquire has both dimensions positive:
\* within that tick the surface is reconfigured once and both attachments are
\* replaced by newly allocated ones, all at the size the state had before the
\* tick, and SurfaceConfig is the same afterwards.
C14_LostResizeTakesEffect ==
    [][AcquireResult(trace') = "Lost" =>
          /\ \A sz \in ResizeArgs(trace') : Positive(sz)
          /\ CountOp(trace', "surface.configure") = 1
          /\ CountOp(trace', "create_depth_texture") = 1
          /\ CountOp(trace', "create_msfb_texture") = 1
          /\ depth_texture'.id > device
          /\ multisampled_framebuffer'.id > device
          /\ depth_texture'.width = size.width
          /\ depth_texture'.height = size.height
          /\ multisampled_framebuffer'.width = size.width
          /\ multisampled_framebuffer'.height = size.height
          /\ surface'.width = size.width
          /\ surface'.height = size.height
          /\ config' = config]_vars

C14_Witness ==
    /\ AcquireResult(trace) = "Lost"
    /\ CountOp(trace, "surface.configure") = 1
    /\ size = [width |-> 2, height |-> 1]
    /\ device > 4

\* C15: every tick writes the instance buffer and the camera buffer (the
\* latter after the view-projection matrix was recomputed) before its acquire,
\* the buffers written are the ones State holds since startup, and no handler
\* ever replaces them or creates a buffer.
C15_BuffersRewrittenInPlace ==
    /\ [][/\ camera_buffer'.label = camera_buffer.label
          /\ camera_buffer'.usage = camera_buffer.usage
          /\ boids'.buffer.label = boids.buffer.label
          /\ boids'.buffer.usage = boids.buffer.usage
          /\ CountOp(trace', "create_buffer_init") = 0]_vars
    /\ [][Acquired(trace') =>
            LET w == Idx(trace', "write_buffer")
                cam == {i \in w : trace'[i].args[1] = camera_buffer.label}
                ins == {i \in w : trace'[i].args[1] = boids.buffer.label}
            IN /\ Cardinality(cam) = 1
               /\ Cardinality(ins) = 1
               /\ w = cam \cup ins
               /\ \A i \in w, a \in Idx(trace', "get_current_texture") : i < a
               /\ CountOp(trace', "update_view_proj") = 1
               /\ \A v \in Idx(trace', "update_view_proj"), i \in cam : v < i
               /\ camera_buffer'.writes = camera_buffer.writes + 1
               /\ boids'.buffer.writes = boids.buffer.writes + 1]_vars

C15_Witness ==
    /\ AcquireResult(trace) = "Ok"
    /\ camera_buffer.writes = 2
    /\ boids.buffer.writes = 2
    /\ camera_buffer.label = "camera_buffer"

\* C16: in the scene pass the aquarium draw is recorded under the aquarium
\* pipeline, then the fish draw under the fish pipeline; the scene pass ends
\* before the UI frame starts and before the UI encoder exists or records.
C16_SceneDrawOrder ==
    \A b \in Idx(trace, "begin_render_pass") :
        LET draws == Idx(trace, "draw_model_instanced")
            pipes == Idx(trace, "set_pipeline")
            da == {i \in draws : trace[i].args[1] = "aquarium_model"}
            df == {i \in draws : trace[i].args[1] = "fish_model"}
            pa == {i \in pipes : trace[i].args[1] = aquarium_pipeline}
            pf == {i \in pipes : trace[i].args[1] = fish_pipeline}
            ends == Idx(trace, "end_render_pass")
            ui == Idx(trace, "ui.begin_frame") \cup Idx(trace, "ui.end_frame")
                    \cup Idx(trace, "ui.update_buffers") \cup Idx(trace, "ui.execute")
                    \cup {i \in Idx(trace, "create_command_encoder") :
                             trace[i].args[1] = "ui_encoder"}
        IN /\ aquarium_pipeline # fish_pipeline
           /\ Cardinality(da) = 1 /\ Cardinality(df) = 1
           /\ Cardinality(pa) = 1 /\ Cardinality(pf) = 1
           /\ Cardinality(ends) = 1
           /\ draws = da \cup df
           /\ \A p \in pa, a \in da, q \in pf, f \in df, e \in ends :
                 b < p /\ p < a /\ a < q /\ q < f /\ f < e
           /\ ui # {}
           /\ \A e \in ends, u \in ui : e < u

C16_Witness ==
    /\ CountOp(trace, "draw_model_instanced") = 2
    /\ CountOp(trace, "ui.execute") = 1
    /\ frames.presents = 1

\* C18: the format written into SurfaceConfig is the first sRGB format of the
\* surface's supported formats if there is one and the first supported
\* format otherwise, and it is the format of both scene pipelines and of the UI
\* render pass.
C18_FormatSelection ==
    LET srgb == {i \in 1..Len(surface_caps) : is_srgb(surface_caps[i])}
        expected == IF srgb # {}
                    THEN surface_caps[CHOOSE i \in srgb : \A j \in srgb : i <= j]
                    ELSE surface_caps[1]
    IN /\ Len(surface_caps) >= 1
       /\ config.format = expected
       /\ surface.format = expected
       /\ fish_pipeline.format = expected
       /\ aquarium_pipeline.format = expected
       /\ egui_render_pass.format = expected

C18_Witness ==
    /\ surface_caps = <<"Bgra8Unorm", "Rgba8UnormSrgb">>
    /\ config.format = "Rgba8UnormSrgb"
    /\ frames.presents > 0

\* C19: no step changes either pipeline, the camera bind group, the boids bind
\* group, the surface format or a sample count; a handler that makes no
\* effective resize leaves the size fields, the surface and both attachments
\* alone; a handler that does not run update leaves both buffers alone, and
\* update changes nothing of them but their contents.
C19_StartupObjectsImmutable ==
    [][/\ fish_pipeline' = fish_pipeline
       /\ aquarium_pipeline' = aquarium_pipeline
       /\ camera_bind_group' = camera_bind_group
       /\ boids'.bind_group = boids.bind_group
       /\ config'.format = config.format
       /\ surface'.format = surface.format
       /\ egui_render_pass' = egui_render_pass
       /\ depth_texture'.sample_count = depth_texture.sample_count
       /\ multisampled_framebuffer'.sample_count = multisampled_framebuffer.sample_count
       /\ fish_pipeline'.sample_count = MSAA_SAMPLE_COUNT
       /\ (~\E sz \in ResizeArgs(trace') : Positive(sz)) =>
             /\ size' = size
             /\ config' = config
             /\ surface' = surface
             /\ depth_texture' = depth_texture
             /\ multisampled_framebuffer' = multisampled_framebuffer
       /\ CountOp(trace', "update_camera") = 0 =>
             /\ camera_buffer' = camera_buffer
             /\ boids' = boids
             /\ frames' = frames
       /\ [camera_buffer' EXCEPT !.writes = 0] = [camera_buffer EXCEPT !.writes = 0]
       /\ [boids' EXCEPT !.buffer.writes = 0] = [boids EXCEPT !.buffer.writes = 0]]_vars

C19_Witness ==
    /\ device > 2
    /\ frames.presents > 0
    /\ camera_buffer.writes > 1
    /\ \E sz \in ResizeArgs(trace) : Positive(sz) /\ sz # [width |-> 1, height |-> 1]

\* C20: State.size is (SurfaceConfig.width, SurfaceConfig.height) in every
\* state.
C20_SizeIsConfigSize ==
    /\ size.width = config.width
    /\ size.height = config.height

C20_Witness ==
    /\ \E sz \in ResizeArgs(trace) : Positive(sz) /\ sz = size
    /\ ~Acquired(trace)
    /\ device > 2
    /\ frames.acquires > 0
    /\ size = [width |-> 1, height |-> 2]

\* C13: the passes of one texture target the levels 1, 2, ..., in increasing
\* order, each pass samples only the view of the level below its target, in
\* the same texture, level 0 is never a target, and a level is written by an
\* earlier pass than any pass that samples it.
C13_BlitOrder ==
    mip_output # <<>> =>
        LET ps == mip_output[1].passes
            n == Len(ps)
        IN /\ \A i \in 1..n :
                 /\ ps[i].target.base_mip_level >= 1
                 /\ ps[i].sampled.texture = ps[i].target.texture
                 /\ ps[i].sampled.base_mip_level = ps[i].target.base_mip_level - 1
                 /\ ps[i].sampled.mip_level_count = 1
                 /\ ps[i].target.mip_level_count = 1
           /\ \A i, j \in 1..n :
                 (i < j /\ ps[i].target.texture = ps[j].target.texture) =>
                     ps[i].target.base_mip_level < ps[j].target.base_mip_level
           /\ \A t \in 1..Len(textures) :
                 {ps[i].target.base_mip_level : i \in PassesOf(mip_output[1], t)}
                     = 1..(Len(mip_output[1].views[t]) - 1)
           /\ \A j \in 1..n :
                 ps[j].sampled.base_mip_level >= 1 =>
                     \E i \in 1..(j - 1) : ps[i].target = ps[j].sampled
           /\ \A i, j \in 1..n : ps[i].target = ps[j].sampled => i < j

C13_Witness ==
    /\ mip_output # <<>>
    /\ Len(textures) = 2
    /\ textures[1] = [width |-> 4, height |-> 3]
    /\ textures[2] = [width |-> 300, height |-> 150]
    /\ Len(mip_output[1].passes) = 10

\* C17: create_bind_group makes the layout before the group, builds the group
\* against that layout and returns the pair; the group's label is the
\* descriptor's label, the layout's label is that label followed by "_layout",
\* and without a descriptor label neither has one.
C17_LayoutFirstAndLabels ==
    bind_group_output # <<>> =>
        LET pair == bind_group_output[1]
            group == pair[1]
            layout == pair[2]
        IN /\ Len(pair) = 2
           /\ layout.created < group.created
           /\ group.layout = layout
           /\ group.label = desc.label
           /\ desc.label = <<>> => (layout.label = <<>> /\ group.label = <<>>)
           /\ desc.label = <<"camera_bind_group">> =>
                 layout.label = <<"camera_bind_group_layout">>
           /\ desc.label = <<"tints">> => layout.label = <<"tints_layout">>

C17_Witness ==
    /\ bind_group_output # <<>>
    /\ desc.label = <<"tints">>
    /\ Len(desc.entries) = 1
    /\ bind_group_output[1][2].label = <<"tints_layout">>

\* C21: in every rendered frame the scene pass resolves into the view created
\* from the acquired output, clears colour to black and depth to 1.0 and stores
\* both; the UI pass is then executed once, after the scene pass has ended, on
\* that same view and with no clear colour (so the target is loaded, never
\* cleared); the output presented is the one both passes drew into.
C21_UiPassLoadsSceneTarget ==
    /\ Acquired(trace) /\ AcquireResult(trace) = "Ok" =>
          /\ CountOp(trace, "begin_render_pass") = 1
          /\ CountOp(trace, "ui.execute") = 1
          /\ CountOp(trace, "create_view") = 1
    /\ \A b \in Idx(trace, "begin_render_pass") :
          /\ trace[b].args[5] = [load |-> "Clear",
                                 value |-> [r |-> 0, g |-> 0, b |-> 0, a |-> 1],
                                 store |-> TRUE]
          /\ trace[b].args[6] = <<[load |-> "Clear", value |-> 1, store |-> TRUE]>>
          /\ \E v \in Idx(trace, "create_view") :
                /\ v < b
                /\ trace[b].args[4] = trace[v].args[1]
    /\ \A u \in Idx(trace, "ui.execute") :
          /\ trace[u].args[3] = <<>>
          /\ \E b \in Idx(trace, "begin_render_pass") :
                /\ trace[u].args[2] = trace[b].args[4]
                /\ \E e \in Idx(trace, "end_render_pass") : b < e /\ e < u
          /\ \A p \in Idx(trace, "present") :
                u < p /\ trace[p].args[1] = trace[u].args[2]

C21_Witness ==
    /\ AcquireResult(trace) = "Ok"
    /\ CountOp(trace, "ui.execute") = 1
    /\ CountOp(trace, "begin_render_pass") = 1
    /\ CountOp(trace, "present") = 1
    /\ frames.presents = 2
    /\ device > 2


====
